---- MODULE Spec2Model ----
(***************************************************************************)
(* The sales pipeline board: the deal store held by PipelineBoard, the     *)
(* optimistic stage change with reload on failure, the drag-and-drop and   *)
(* button paths that start a stage change, and the read-side projections   *)
(* (search filter, per-stage grouping and totals, funnel, overdue).        *)
(*                                                                         *)
(* Time is counted in ticks; a local day has TicksPerDay ticks.  A string  *)
(* is a sequence of one-character strings.  A nullable number is Null.     *)
(***************************************************************************)
EXTENDS Integers, Sequences, FiniteSets, TLC

VARIABLES
    deals,        \* PipelineBoard state `deals`: the deal store
    loading,      \* PipelineBoard state `loading`
    error,        \* PipelineBoard state `error`
    viewingDeal,  \* PipelineBoard state `viewingDeal`: <<>> or <<deal>>
    searchQuery,  \* PipelineBoard state `searchQuery`
    db,           \* the rows of the persistence service, newest first
    clock,        \* the wall clock, in ticks
    tz,           \* the local time zone's offset from UTC, in ticks
    ops,          \* the asynchronous operations in flight, one per slot
    dragging,     \* a platform drag session is open
    dataTransfer, \* the payload of the drag session
    nCalls,       \* how many times a handler that writes has been called
    ev,           \* the last event and the changeStage calls it made
    showDealForm, \* PipelineBoard state `showDealForm`
    editingDeal,  \* PipelineBoard state `editingDeal`: <<>> or <<deal>>
    form,         \* the state of the mounted DealForm
    user,         \* the identity provider has an authenticated user
    nInserts,     \* how many rows persistence has given an id to
    pointer,      \* where the pointer of the drag session is
    isDragOver    \* StageColumn state `isDragOver`, per column

vars == <<deals, loading, error, viewingDeal, searchQuery, db, clock, tz,
          ops, dragging, dataTransfer, nCalls, ev,
          showDealForm, editingDeal, form, user, nInserts, pointer, isDragOver>>

\* The deal form, the session and the id sequence of persistence.
formVars == <<showDealForm, editingDeal, form, user, nInserts>>

\* The pointer of a drag and the highlight of the columns.
hoverVars == <<pointer, isDragOver>>

(***************************************************************************)
(* Bounds of the model.                                                    *)
(***************************************************************************)
MaxClock == 1
MaxInFlight == 2
MaxCalls == 2
TicksPerDay == 2
MaxDay == 2
MaxQueryLen == 1
MaxViewDeals == 2
MaxFunnelDeals == 6

(***************************************************************************)
(* Data.                                                                   *)
(***************************************************************************)
Null == -1

STAGES ==
    << [id |-> "suspect",  name |-> "Suspect",         position |-> 1],
       [id |-> "prospect", name |-> "Prospect",        position |-> 2],
       [id |-> "afspraak", name |-> "Afspraak",        position |-> 3],
       [id |-> "voorstel", name |-> "Voorstel",        position |-> 4],
       [id |-> "volgende", name |-> "Volgende ronde",  position |-> 5],
       [id |-> "decision", name |-> "Decision making", position |-> 6],
       [id |-> "won",      name |-> "Won",             position |-> 7] >>

StageIds == { STAGES[i].id : i \in DOMAIN STAGES }

\* Array.prototype.findIndex over STAGES, 0-based; -1 when no stage has the id.
FindIndex(stageId) ==
    IF \E i \in DOMAIN STAGES : STAGES[i].id = stageId
    THEN (CHOOSE i \in DOMAIN STAGES :
             /\ STAGES[i].id = stageId
             /\ \A j \in DOMAIN STAGES : STAGES[j].id = stageId => i <= j) - 1
    ELSE -1

\* STAGES[k].name where STAGES[k].id is meant.
StageAt_name(k) == STAGES[k + 1].name

\* STAGES[k].id for a 0-based index k the callers have checked to be in range.
StageAt(k) == STAGES[k + 1].id

Deal(id, stage, org, amount, nextAction, lastActivity) ==
    [ id |-> id, stage_id |-> stage, organization |-> org, amount |-> amount,
      next_action_at |-> nextAction, last_activity_at |-> lastActivity,
      prospects |-> <<>> ]

\* The rows persistence holds when the board is mounted.
InitialRows ==
    << Deal("d1", "prospect", <<"A", "b">>, 5, 1, 0) >>

NoError == "null"

\* The pointer of a drag is outside every column, or in the cards container of
\* a column: on the container itself or on one of its child elements.
Outside == [ col |-> "", on |-> "outside" ]

NoColumnHovered == [ s \in StageIds |-> FALSE ]
FetchError == "Kon deals niet ophalen"

(***************************************************************************)
(* Strings, dates and rounding, as the JavaScript calls compute them.      *)
(***************************************************************************)
\* String.prototype.toLowerCase on one character of the model's alphabet.
LowerChar(c) == IF c = "A" THEN "a" ELSE IF c = "B" THEN "b" ELSE c

ToLowerCase(s) == [i \in DOMAIN s |-> LowerChar(s[i])]

\* String.prototype.includes: q occurs in s as a contiguous substring.
Includes(s, q) ==
    \E k \in 0..(Len(s) - Len(q)) : SubSeq(s, k + 1, k + Len(q)) = q

\* Date.prototype.setHours(0, 0, 0, 0): the instant local midnight of t's local day.
SetHoursZero(t) == ((t + tz) \div TicksPerDay) * TicksPerDay - tz

\* Date.prototype.toDateString: the local calendar day of instant t.
ToDateString(t) == (t + tz) \div TicksPerDay

\* Math.floor where Math.round is meant.
MathRound_floor(num, den) == num \div den

\* Math.round(num / den) for den > 0: the nearest integer, halves rounded up.
MathRound(num, den) == (2 * num + den) \div (2 * den)

RECURSIVE SumAmounts(_)
\* reduce((sum, deal) => sum + (deal.amount ?? 0), 0)
SumAmounts(ds) ==
    IF ds = <<>> THEN 0
    ELSE (IF Head(ds).amount = Null THEN 0 ELSE Head(ds).amount) + SumAmounts(Tail(ds))

(***************************************************************************)
(* The read side of PipelineBoard, recomputed from the state on each       *)
(* render.                                                                 *)
(***************************************************************************)
MatchesQuery(deal) ==
    Includes(ToLowerCase(deal.organization), ToLowerCase(searchQuery))

filteredDeals ==
    IF searchQuery # <<>> THEN SelectSeq(deals, MatchesQuery) ELSE deals

InStage(ds, stageId) == SelectSeq(ds, LAMBDA d : d.stage_id = stageId)

\* The grouping taken from the whole store instead of the filtered list.
dealsByStage_unfiltered == [s \in StageIds |-> InStage(deals, s)]

dealsByStage == [s \in StageIds |-> InStage(filteredDeals, s)]

\* StageColumn.totalValue of the column of stage s.
totalValue(s) == SumAmounts(dealsByStage[s])

NotWon(ds) == SelectSeq(ds, LAMBDA d : d.stage_id # "won")

totalDeals == Len(NotWon(deals))

\* funnelData[...].percentage of a stage other than 'won'.
FunnelPercentage(s) ==
    IF totalDeals > 0 THEN MathRound(Len(InStage(deals, s)) * 100, totalDeals) ELSE 0

FunnelStages == StageIds \ {"won"}

\* The pipeline value without its filter on the stage.
pipelineValue_all == SumAmounts(deals)

pipelineValue == SumAmounts(NotWon(deals))

wonValue == SumAmounts(InStage(deals, "won"))

\* isOverdue without now.setHours(0, 0, 0, 0).
isOverdue_untruncatedNow(dateString) == SetHoursZero(dateString) < clock

isOverdue(dateString) == SetHoursZero(dateString) < SetHoursZero(clock)

isToday(dateString) == ToDateString(dateString) = ToDateString(clock)

\* The predicate of the overdueCount filter.
CountsAsOverdue(deal) ==
    IF deal.next_action_at = Null THEN FALSE
    ELSE SetHoursZero(deal.next_action_at) < SetHoursZero(clock)

overdueCount == Len(SelectSeq(deals, CountsAsOverdue))

\* dealsWithActions before its sort: the deals that have a next action.
HasAction(deal) == deal.next_action_at # Null

\* The number of days without activity from which a deal counts as stale.
StaleDays == 14

\* Math.floor((now.getTime() - lastActivity.getTime()) / (1000 * 60 * 60 * 24))
DiffDays(deal) == (clock - deal.last_activity_at) \div TicksPerDay

\* The staleDeals filter with > where >= is meant.
IsStale_strict(deal) ==
    IF deal.stage_id = "won" THEN FALSE ELSE DiffDays(deal) > StaleDays

\* The predicate of the staleDeals filter.
IsStale(deal) ==
    IF deal.stage_id = "won" THEN FALSE ELSE DiffDays(deal) >= StaleDays

staleDeals == SelectSeq(deals, IsStale)


(***************************************************************************)
(* DealForm: its fields and the conversions of handleSubmit.  The amount   *)
(* field is typed over an alphabet of a digit, the minus sign, a letter    *)
(* and the space.                                                          *)
(***************************************************************************)
DigitChars == <<"0", "1", "2", "3", "4", "5", "6", "7", "8", "9">>

IsDigit(c) == \E d \in DOMAIN DigitChars : DigitChars[d] = c

DigitVal(c) == (CHOOSE d \in DOMAIN DigitChars : DigitChars[d] = c) - 1

RECURSIVE NumberToString(_)
\* Number.prototype.toString of a non-negative integer.
NumberToString(n) ==
    IF n < 10 THEN << DigitChars[n + 1] >>
    ELSE Append(NumberToString(n \div 10), DigitChars[(n % 10) + 1])

RECURSIVE TrimStart(_)
TrimStart(s) == IF s # <<>> /\ Head(s) = " " THEN TrimStart(Tail(s)) ELSE s

RECURSIVE TrimEnd(_)
TrimEnd(s) ==
    IF s # <<>> /\ s[Len(s)] = " " THEN TrimEnd(SubSeq(s, 1, Len(s) - 1)) ELSE s

\* String.prototype.trim
Trim(s) == TrimEnd(TrimStart(s))

\* amount.replace(/[^\d,-]/g, ''): only digits, commas and hyphens are kept.
StripAmount(s) == SelectSeq(s, LAMBDA c : IsDigit(c) \/ c = "," \/ c = "-")

\* A result of parseFloat is <<v>> for the number v, and NaN when no number can
\* be read.
NaN == <<>>

isNaN(x) == x = NaN

RECURSIVE DigitsPrefix(_)
\* The longest prefix of s made of digits.
DigitsPrefix(s) ==
    IF s # <<>> /\ IsDigit(Head(s)) THEN << Head(s) >> \o DigitsPrefix(Tail(s)) ELSE <<>>

RECURSIVE DigitsValue(_)
DigitsValue(ds) ==
    IF ds = <<>> THEN 0
    ELSE 10 * DigitsValue(SubSeq(ds, 1, Len(ds) - 1)) + DigitVal(ds[Len(ds)])

\* parseFloat on a string of digits and hyphens: an optional sign, then the
\* longest run of digits; NaN when no digit follows.
ParseFloat(s) ==
    LET neg  == s # <<>> /\ Head(s) = "-"
        rest == IF neg THEN Tail(s) ELSE s
        ds   == DigitsPrefix(rest)
    IN  IF ds = <<>> THEN NaN
        ELSE IF neg THEN << 0 - DigitsValue(ds) >> ELSE << DigitsValue(ds) >>

\* parseFloat(amount.replace(/[^\d,-]/g, '').replace(',', '.')), for amounts
\* typed without a comma.
ParseAmount(s) == ParseFloat(StripAmount(s))

\* The validation of handleSubmit: the message it sets, or NoError.
OrganizationError == "Organisatienaam is verplicht"
AmountError == "Voer een geldig bedrag in"

\* handleSubmit rejecting only the amounts that cannot be parsed.
ValidationError_allowsNegative(f) ==
    IF Trim(f.organization) = <<>> THEN OrganizationError
    ELSE IF Trim(f.amount) # <<>> /\ isNaN(ParseAmount(f.amount))
    THEN AmountError
    ELSE NoError

ValidationError(f) ==
    IF Trim(f.organization) = <<>> THEN OrganizationError
    ELSE IF Trim(f.amount) # <<>>
            /\ (isNaN(ParseAmount(f.amount)) \/ ParseAmount(f.amount)[1] < 0)
    THEN AmountError
    ELSE NoError

\* formatDateForInput: the UTC calendar day of the instant, '' for none.
formatDateForInput(dateString) ==
    IF dateString = Null THEN Null ELSE dateString \div TicksPerDay

\* The data handleSubmit passes to onSubmit.
SubmitData(f) ==
    [ organization |-> Trim(f.organization),
      amount |-> IF Trim(f.amount) # <<>> THEN ParseAmount(f.amount)[1] ELSE Null,
      stage_id |-> f.stageId,
      next_action_at |->
          IF f.nextActionAt # Null THEN f.nextActionAt * TicksPerDay ELSE Null ]

\* The state no mounted form has.
NoForm ==
    [ organization |-> <<>>, amount |-> <<>>, stageId |-> "", nextActionAt |-> Null,
      error |-> NoError, submitting |-> FALSE, deleting |-> FALSE ]

\* The useState initial values of a form mounted without a deal.
NewForm == [ NoForm EXCEPT !.stageId = "suspect" ]

\* The useState initial values of a form mounted for `deal`.
EditForm(deal) ==
    [ NoForm EXCEPT
        !.organization = deal.organization,
        !.amount = IF deal.amount = Null THEN <<>> ELSE NumberToString(deal.amount),
        !.stageId = deal.stage_id,
        !.nextActionAt = formatDateForInput(deal.next_action_at) ]

(***************************************************************************)
(* Asynchronous operations.  Each call of handleStageChange or fetchDeals  *)
(* occupies a slot from its first request until its last response has been *)
(* handled.  pc: "write" and "fetch" are requests persistence has not      *)
(* answered yet; "writeOk", "writeErr", "fetchOk" and "fetchErr" are       *)
(* answers on their way back to the board.                                 *)
(***************************************************************************)
Slots == 1..MaxInFlight

IdleOp ==
    [ pc |-> "idle", kind |-> "", dealId |-> "", stage |-> "",
      opt |-> 0, ts |-> 0, data |-> <<>>, payload |-> <<>>, attached |-> FALSE ]

FetchOp == [ IdleOp EXCEPT !.pc = "fetch", !.kind = "fetch" ]

FreeSlots == { i \in Slots : ops[i].pc = "idle" }

FreeSlot == CHOOSE i \in FreeSlots : \A j \in FreeSlots : i <= j

\* What the last step was: a user event with the onStageChange calls it made, or
\* the end of a request of the operation `op`.
Event(kind, calls) ==
    [ kind |-> kind, calls |-> calls, dealId |-> "", stage |-> "", opt |-> 0 ]

OpEvent(kind, op) ==
    [ kind |-> kind, calls |-> <<>>, dealId |-> op.dealId, stage |-> op.stage,
      opt |-> op.opt ]

NoEvent == Event("", <<>>)

Call(dealId, newStageId) == [ dealId |-> dealId, newStageId |-> newStageId ]

\* The clock values a second `new Date()` of the same handler run may read.
LaterReads == { t \in {clock, clock + 1} : t <= MaxClock }

(***************************************************************************)
(* fetchDeals (PipelineBoard).                                             *)
(***************************************************************************)
\* Persistence answers a select: the rows in created_at order, or an error.
FetchServe(i) ==
    /\ ops[i].pc = "fetch"
    /\ \/ ops' = [ops EXCEPT ![i].pc = "fetchOk", ![i].data = db]
       \/ ops' = [ops EXCEPT ![i].pc = "fetchErr"]
    /\ ev' = NoEvent
    /\ UNCHANGED <<deals, loading, error, viewingDeal, searchQuery, db, clock, tz, hoverVars,
                   dragging, dataTransfer, nCalls, formVars>>

\* setDeals(data ?? []); setError(null); finally setLoading(false)
FetchReturnOk(i) ==
    /\ ops[i].pc = "fetchOk"
    /\ deals' = ops[i].data
    /\ error' = NoError
    /\ loading' = FALSE
    /\ ops' = [ops EXCEPT ![i] = IdleOp]
    /\ ev' = IF ops[i].kind = "stage" THEN OpEvent("reloaded", ops[i])
             ELSE Event("fetched", <<>>)
    /\ UNCHANGED <<viewingDeal, searchQuery, db, clock, tz, hoverVars, dragging, dataTransfer, nCalls, formVars>>

\* fetchDeals emptying the store in its catch branch.
FetchReturnErr_clearing(i) ==
    /\ ops[i].pc = "fetchErr"
    /\ deals' = <<>>
    /\ error' = FetchError
    /\ loading' = FALSE
    /\ ops' = [ops EXCEPT ![i] = IdleOp]
    /\ ev' = IF ops[i].kind = "stage" THEN OpEvent("reloadFailed", ops[i])
             ELSE Event("fetchFailed", <<>>)
    /\ UNCHANGED <<viewingDeal, searchQuery, db, clock, tz, hoverVars, dragging, dataTransfer, nCalls, formVars>>

\* fetchDeals without its finally clause on the error path.
FetchReturnErr_keepsLoading(i) ==
    /\ ops[i].pc = "fetchErr"
    /\ error' = FetchError
    /\ loading' = loading
    /\ ops' = [ops EXCEPT ![i] = IdleOp]
    /\ ev' = IF ops[i].kind = "stage" THEN OpEvent("reloadFailed", ops[i])
             ELSE Event("fetchFailed", <<>>)
    /\ UNCHANGED <<deals, viewingDeal, searchQuery, db, clock, tz, hoverVars, dragging, dataTransfer, nCalls, formVars>>

\* catch: setError(message); finally setLoading(false)
FetchReturnErr(i) ==
    /\ ops[i].pc = "fetchErr"
    /\ error' = FetchError
    /\ loading' = FALSE
    /\ ops' = [ops EXCEPT ![i] = IdleOp]
    /\ ev' = IF ops[i].kind = "stage" THEN OpEvent("reloadFailed", ops[i])
             ELSE Event("fetchFailed", <<>>)
    /\ UNCHANGED <<deals, viewingDeal, searchQuery, db, clock, tz, hoverVars, dragging, dataTransfer, nCalls, formVars>>

\* There is one pointer: nothing is clicked while a drag session is open.
CanClick == ~dragging

\* The error view's button: onClick={fetchDeals}
Retry ==
    /\ ~loading
    /\ CanClick
    /\ error # NoError
    /\ FreeSlots # {}
    /\ ops' = [ops EXCEPT ![FreeSlot] = FetchOp]
    /\ ev' = NoEvent
    /\ UNCHANGED <<deals, loading, error, viewingDeal, searchQuery, db, clock, tz, hoverVars,
                   dragging, dataTransfer, nCalls, formVars>>

(***************************************************************************)
(* handleStageChange (PipelineBoard).                                      *)
(***************************************************************************)
\* The optimistic update without the comparison of the ids.
OptimisticUpdate_everyDeal(prev, dealId, newStageId, now) ==
    [ i \in DOMAIN prev |->
        [ prev[i] EXCEPT !.stage_id = newStageId, !.last_activity_at = now ] ]

\* prev.map(deal => deal.id === dealId ? {...deal, stage_id, last_activity_at} : deal)
OptimisticUpdate(prev, dealId, newStageId, now) ==
    [ i \in DOMAIN prev |->
        IF prev[i].id = dealId
        THEN [ prev[i] EXCEPT !.stage_id = newStageId, !.last_activity_at = now ]
        ELSE prev[i] ]

\* handleStageChange issuing its update request without the optimistic update.
HandleStageChange_writeOnly(dealId, newStageId) ==
    /\ FreeSlots # {}
    /\ nCalls < MaxCalls
    /\ nCalls' = nCalls + 1
    /\ deals' = deals
    /\ \E t \in LaterReads :
          /\ clock' = t
          /\ ops' = [ops EXCEPT ![FreeSlot] =
                        [ pc |-> "write", kind |-> "stage", dealId |-> dealId,
                          stage |-> newStageId, opt |-> clock, ts |-> t,
                          data |-> <<>>, payload |-> <<>>, attached |-> FALSE ]]

\* The synchronous part of one call: the optimistic update, then the update
\* request, whose last_activity_at is a second reading of the clock.
HandleStageChange(dealId, newStageId) ==
    /\ FreeSlots # {}
    /\ nCalls < MaxCalls
    /\ nCalls' = nCalls + 1
    /\ deals' = OptimisticUpdate(deals, dealId, newStageId, clock)
    /\ \E t \in LaterReads :
          /\ clock' = t
          /\ ops' = [ops EXCEPT ![FreeSlot] =
                        [ pc |-> "write", kind |-> "stage", dealId |-> dealId,
                          stage |-> newStageId, opt |-> clock, ts |-> t,
                          data |-> <<>>, payload |-> <<>>, attached |-> FALSE ]]

\* A handler that makes the calls of `calls` (at most one) to onStageChange.
MakeCalls(calls) ==
    IF calls = <<>>
    THEN UNCHANGED <<deals, ops, clock, nCalls>>
    ELSE HandleStageChange(calls[1].dealId, calls[1].newStageId)

\* update(...).eq('id', dealId) on the rows of persistence.
ApplyUpdate(rows, dealId, newStageId, ts) ==
    [ i \in DOMAIN rows |->
        IF rows[i].id = dealId
        THEN [ rows[i] EXCEPT !.stage_id = newStageId, !.last_activity_at = ts ]
        ELSE rows[i] ]

\* Persistence answers the update: applied, or an error and nothing applied.
WriteServe(i) ==
    /\ ops[i].pc = "write"
    /\ \/ /\ db' = ApplyUpdate(db, ops[i].dealId, ops[i].stage, ops[i].ts)
          /\ ops' = [ops EXCEPT ![i].pc = "writeOk"]
       \/ /\ db' = db
          /\ ops' = [ops EXCEPT ![i].pc = "writeErr"]
    /\ ev' = NoEvent
    /\ UNCHANGED <<deals, loading, error, viewingDeal, searchQuery, clock, tz, hoverVars,
                   dragging, dataTransfer, nCalls, formVars>>

\* handleStageChange calling fetchDeals after a write without error too.
WriteReturnOk_reloading(i) ==
    /\ ops[i].pc = "writeOk"
    /\ ops' = [ops EXCEPT ![i].pc = "fetch"]
    /\ ev' = OpEvent("written", ops[i])
    /\ UNCHANGED <<deals, loading, error, viewingDeal, searchQuery, db, clock, tz, hoverVars,
                   dragging, dataTransfer, nCalls, formVars>>

\* const { error } = await ...: no error, the call is over.
WriteReturnOk(i) ==
    /\ ops[i].pc = "writeOk"
    /\ ops' = [ops EXCEPT ![i] = IdleOp]
    /\ ev' = OpEvent("written", ops[i])
    /\ UNCHANGED <<deals, loading, error, viewingDeal, searchQuery, db, clock, tz, hoverVars,
                   dragging, dataTransfer, nCalls, formVars>>

\* if (error) { console.error(...); await fetchDeals() }: the event is the
\* report to the console.
WriteReturnErr(i) ==
    /\ ops[i].pc = "writeErr"
    /\ ops' = [ops EXCEPT ![i].pc = "fetch"]
    /\ ev' = Event("writeFailed", <<>>)
    /\ UNCHANGED <<deals, loading, error, viewingDeal, searchQuery, db, clock, tz, hoverVars,
                   dragging, dataTransfer, nCalls, formVars>>


(***************************************************************************)
(* The user's ways to a stage change.  The board (columns, cards, action   *)
(* list, modal) is rendered only when neither loading nor error is set;    *)
(* the detail modal's backdrop covers the board while it is open.          *)
(***************************************************************************)
BoardShown == ~loading /\ error = NoError

CardsUsable == BoardShown /\ viewingDeal = <<>>

\* A card is rendered for each deal of dealsByStage.
HasCard(deal) ==
    \E s \in StageIds : \E k \in DOMAIN dealsByStage[s] : dealsByStage[s][k].id = deal.id

canMoveBack(deal) == FindIndex(deal.stage_id) > 0

canMoveForward(deal) == FindIndex(deal.stage_id) < Len(STAGES) - 1

\* DealCard.handleStageChange(newStageId), from the card's dropdown.
SelectStageCalls(deal, newStageId) ==
    IF newStageId # deal.stage_id THEN << Call(deal.id, newStageId) >> ELSE <<>>

\* A back button that goes to the first stage.
MoveBackCalls_toFirst(deal) ==
    IF canMoveBack(deal) THEN << Call(deal.id, StageAt(0)) >> ELSE <<>>

\* DealCard.handleMoveBack and the modal's back button.
MoveBackCalls(deal) ==
    IF canMoveBack(deal)
    THEN << Call(deal.id, StageAt(FindIndex(deal.stage_id) - 1)) >>
    ELSE <<>>

\* DealCard.handleMoveForward and the modal's forward button.
MoveForwardCalls(deal) ==
    IF canMoveForward(deal)
    THEN << Call(deal.id, StageAt(FindIndex(deal.stage_id) + 1)) >>
    ELSE <<>>

\* handleDrop without the comparison of fromStage with the column's stage.
HandleDropCalls_always(payload, stageId) ==
    IF payload.dealId # "" THEN << Call(payload.dealId, stageId) >> ELSE <<>>

\* StageColumn.handleDrop on the column of `stageId`, with the session's payload.
HandleDropCalls(payload, stageId) ==
    IF payload.dealId # "" /\ payload.fromStage # stageId
    THEN << Call(payload.dealId, stageId) >>
    ELSE <<>>

NoPayload == [ dealId |-> "", fromStage |-> "" ]

CardSelectStage(i, s) ==
    /\ CardsUsable
    /\ CanClick
    /\ HasCard(deals[i])
    /\ MakeCalls(SelectStageCalls(deals[i], s))
    /\ ev' = Event("select", SelectStageCalls(deals[i], s))
    /\ UNCHANGED <<loading, error, viewingDeal, searchQuery, db, tz, hoverVars, dragging, dataTransfer, formVars>>

CardMoveBack(i) ==
    /\ CardsUsable
    /\ CanClick
    /\ HasCard(deals[i])
    /\ MakeCalls(MoveBackCalls(deals[i]))
    /\ ev' = Event("back", MoveBackCalls(deals[i]))
    /\ UNCHANGED <<loading, error, viewingDeal, searchQuery, db, tz, hoverVars, dragging, dataTransfer, formVars>>

CardMoveForward(i) ==
    /\ CardsUsable
    /\ CanClick
    /\ HasCard(deals[i])
    /\ MakeCalls(MoveForwardCalls(deals[i]))
    /\ ev' = Event("forward", MoveForwardCalls(deals[i]))
    /\ UNCHANGED <<loading, error, viewingDeal, searchQuery, db, tz, hoverVars, dragging, dataTransfer, formVars>>

\* DealCard.handleDragStart: the payload goes to the platform's drag session.
DragStart(i) ==
    /\ CardsUsable
    /\ ~dragging
    /\ HasCard(deals[i])
    /\ dragging' = TRUE
    /\ dataTransfer' = [ dealId |-> deals[i].id, fromStage |-> deals[i].stage_id ]
    /\ ev' = NoEvent
    /\ UNCHANGED <<deals, loading, error, viewingDeal, searchQuery, db, clock, tz, hoverVars, ops, nCalls, formVars>>

\* A drag whose payload outlives the session.
DragEnd_keepsPayload ==
    /\ dragging
    /\ dragging' = FALSE
    /\ dataTransfer' = dataTransfer
    /\ ev' = Event("dragEnd", <<>>)
    /\ UNCHANGED <<deals, loading, error, viewingDeal, searchQuery, db, clock, tz, hoverVars, ops, nCalls, formVars>>

\* The drag ends without a drop on a column: DealCard.handleDragEnd.
DragEnd ==
    /\ dragging
    /\ dragging' = FALSE
    /\ dataTransfer' = NoPayload
    /\ ev' = Event("dragEnd", <<>>)
    /\ UNCHANGED <<deals, loading, error, viewingDeal, searchQuery, db, clock, tz, hoverVars, ops, nCalls, formVars>>

\* StageColumn.handleDrop, after which the platform closes the session.
Drop(stageId) ==
    /\ CardsUsable
    /\ dragging
    /\ MakeCalls(HandleDropCalls(dataTransfer, stageId))
    /\ dragging' = FALSE
    /\ dataTransfer' = NoPayload
    /\ isDragOver' = [ isDragOver EXCEPT ![stageId] = FALSE ]
    /\ ev' = Event("drop", HandleDropCalls(dataTransfer, stageId))
    /\ UNCHANGED <<loading, error, viewingDeal, searchQuery, db, tz, pointer, formVars>>

\* handleViewDeal, from a row of the action list (the deals with a next action).
ViewDeal(i) ==
    /\ CardsUsable
    /\ CanClick
    /\ HasAction(deals[i])
    /\ viewingDeal' = << deals[i] >>
    /\ ev' = NoEvent
    /\ UNCHANGED <<deals, loading, error, searchQuery, db, clock, tz, hoverVars, ops, dragging,
                   dataTransfer, nCalls, formVars>>

\* The modal's onClose.
CloseModal ==
    /\ BoardShown
    /\ CanClick
    /\ viewingDeal # <<>>
    /\ viewingDeal' = <<>>
    /\ ev' = NoEvent
    /\ UNCHANGED <<deals, loading, error, searchQuery, db, clock, tz, hoverVars, ops, dragging,
                   dataTransfer, nCalls, formVars>>

\* The modal's onStageChange: handleStageChange, then the echo in viewingDeal.
ModalCalls(kind, calls) ==
    /\ BoardShown
    /\ CanClick
    /\ viewingDeal # <<>>
    /\ MakeCalls(calls)
    /\ viewingDeal' =
          IF calls = <<>> THEN viewingDeal
          ELSE << [ viewingDeal[1] EXCEPT !.stage_id = calls[1].newStageId ] >>
    /\ ev' = Event(kind, calls)
    /\ UNCHANGED <<loading, error, searchQuery, db, tz, hoverVars, dragging, dataTransfer, formVars>>

ModalMoveBack == ModalCalls("modalBack", MoveBackCalls(viewingDeal[1]))

ModalMoveForward == ModalCalls("modalForward", MoveForwardCalls(viewingDeal[1]))

\* Time passes.
Tick ==
    /\ clock < MaxClock
    /\ clock' = clock + 1
    /\ ev' = NoEvent
    /\ UNCHANGED <<deals, loading, error, viewingDeal, searchQuery, db, tz, hoverVars, ops,
                   dragging, dataTransfer, nCalls, formVars>>

(***************************************************************************)
(* The board from its mount: the effect of the first render has called     *)
(* fetchDeals.                                                             *)
(***************************************************************************)
Init ==
    /\ deals = <<>>
    /\ loading = TRUE
    /\ error = NoError
    /\ viewingDeal = <<>>
    /\ searchQuery = <<>>
    /\ db = InitialRows
    /\ clock = 0
    /\ tz = 0
    /\ ops = [ i \in Slots |-> IF i = 1 THEN FetchOp ELSE IdleOp ]
    /\ dragging = FALSE
    /\ dataTransfer = NoPayload
    /\ nCalls = 0
    /\ ev = NoEvent
    /\ showDealForm = FALSE
    /\ editingDeal = <<>>
    /\ form = NoForm
    /\ user = TRUE
    /\ nInserts = 0
    /\ pointer = Outside
    /\ isDragOver = NoColumnHovered

Next ==
    \/ \E i \in Slots : FetchServe(i)
    \/ \E i \in Slots : FetchReturnOk(i)
    \/ \E i \in Slots : FetchReturnErr(i)
    \/ Retry
    \/ \E i \in Slots : WriteServe(i)
    \/ \E i \in Slots : WriteReturnOk(i)
    \/ \E i \in Slots : WriteReturnErr(i)
    \/ \E i \in DOMAIN deals : \E s \in StageIds : CardSelectStage(i, s)
    \/ \E i \in DOMAIN deals : CardMoveBack(i)
    \/ \E i \in DOMAIN deals : CardMoveForward(i)
    \/ \E i \in DOMAIN deals : DragStart(i)
    \/ DragEnd
    \/ \E s \in StageIds : Drop(s)
    \/ \E i \in DOMAIN deals : ViewDeal(i)
    \/ CloseModal
    \/ ModalMoveBack
    \/ ModalMoveForward
    \/ Tick

Spec == Init /\ [][Next]_vars


(***************************************************************************)
(* The transition engine called through its exposed surface, without the   *)
(* board's handlers in front of it: handleStageChange takes any string as  *)
(* newStageId (StageId is `string`, since STAGES is declared Stage[]).     *)
(***************************************************************************)
UnknownStage == "archived"

ApiDealIds == { InitialRows[i].id : i \in DOMAIN InitialRows }

\* The callers hold handleStageChange only while the board is rendered.
ApiChangeStage(dealId, newStageId) ==
    /\ BoardShown
    /\ HandleStageChange(dealId, newStageId)
    /\ ev' = Event("api", << Call(dealId, newStageId) >>)
    /\ UNCHANGED <<loading, error, viewingDeal, searchQuery, db, tz, hoverVars, dragging, dataTransfer, formVars>>

ApiNext ==
    \/ \E i \in Slots : FetchServe(i)
    \/ \E i \in Slots : FetchReturnOk(i)
    \/ \E i \in Slots : FetchReturnErr(i)
    \/ Retry
    \/ \E i \in Slots : WriteServe(i)
    \/ \E i \in Slots : WriteReturnOk(i)
    \/ \E i \in Slots : WriteReturnErr(i)
    \/ \E d \in ApiDealIds : \E s \in StageIds \cup {UnknownStage} : ApiChangeStage(d, s)
    \/ Tick

ApiSpec == Init /\ [][ApiNext]_vars

(***************************************************************************)
(* Properties of the transition engine and the drag coordinator.           *)
(***************************************************************************)
StoreHas(dealId, stageId) ==
    \E i \in DOMAIN deals : deals[i].id = dealId /\ deals[i].stage_id = stageId

\* C1: after a changeStage whose write failed, once the call is over (its reload
\* has returned, with rows or with an error) the store equals what a fresh
\* reload from persistence returns: no optimistic value is left in it.
C1_FailedChangeLeavesReload ==
    ev.kind \in {"reloaded", "reloadFailed"} => deals = db

\* C2: a step that calls changeStage(d, s) while deal d of the store already has
\* stage_id s changes nothing in the store and issues no write.
C2_SameStageIsNoOp ==
    [][ \A k \in DOMAIN ev'.calls :
            StoreHas(ev'.calls[k].dealId, ev'.calls[k].newStageId)
                => (deals' = deals /\ ops' = ops) ]_vars

\* C3: when the write of changeStage(d, s) has returned without error, deal d of
\* the store has stage_id s and the last_activity_at read when the call was made.
C3_SuccessKeepsOptimistic ==
    ev.kind = "written" =>
        \E i \in DOMAIN deals :
            /\ deals[i].id = ev.dealId
            /\ deals[i].stage_id = ev.stage
            /\ deals[i].last_activity_at = ev.opt

\* C4: every deal of the store has a stage_id that is the id of a stage of STAGES,
\* whatever stage changes were started from the dropdown, the back and forward
\* buttons, a drop or the modal, and whatever the writes and reloads returned.
C4_StageIdsInRegistry ==
    \A i \in DOMAIN deals : deals[i].stage_id \in StageIds

C4_Witness ==
    /\ nCalls = MaxCalls
    /\ ev.kind = "reloaded"
    /\ deals # <<>>
    /\ \E i \in DOMAIN deals : deals[i].stage_id # InitialRows[1].stage_id

\* C5: changeStage(d, x) with x not the id of a stage of STAGES is rejected: no
\* deal of the store gets stage_id x and no write carrying x is issued.
C5_UnknownStageRejected ==
    /\ \A i \in DOMAIN deals : deals[i].stage_id \in StageIds
    /\ \A i \in Slots : ops[i].kind = "stage" => ops[i].stage \in StageIds

\* The step issued exactly one update request, for deal `dealId` and stage `stageId`.
IssuesOneWrite(dealId, stageId) ==
    \E i \in Slots :
        /\ ops[i].pc = "idle"
        /\ ops'[i].pc = "write"
        /\ ops'[i].dealId = dealId
        /\ ops'[i].stage = stageId
        /\ \A j \in Slots \ {i} : ops'[j] = ops[j]

\* C6: a drop of a dragged deal on the column of the stage it was dragged from
\* makes no call of changeStage; a drop on any other column makes exactly one,
\* with the dragged deal's id and that column's stage id.
C6_DropCalls ==
    [][ \A s \in StageIds :
            (dataTransfer.dealId # "" /\ Drop(s)) =>
                IF dataTransfer.fromStage = s
                THEN /\ nCalls' = nCalls
                     /\ ev'.calls = <<>>
                     /\ deals' = deals
                     /\ ops' = ops
                ELSE /\ nCalls' = nCalls + 1
                     /\ ev'.calls = << Call(dataTransfer.dealId, s) >>
                     /\ IssuesOneWrite(dataTransfer.dealId, s) ]_vars

C6_Witness ==
    /\ ev.kind = "drop"
    /\ ev.calls # <<>>
    /\ \E i \in Slots :
          /\ ops[i].pc = "write"
          /\ ops[i].dealId = ev.calls[1].dealId
          /\ ops[i].stage = ev.calls[1].newStageId


(***************************************************************************)
(* The read side on its own: the board after a load, for every content of  *)
(* the store drawn from a small universe of deals, with the search box     *)
(* typed into and cleared.                                                 *)
(***************************************************************************)
DealIdAt(k) == "d" \o ToString(k)

Alphabet == {"a", "A", "b", "B", " "}

\* The sequences of at most n elements of S.
Tuples(n, S) == UNION { [1..k -> S] : k \in 0..n }

Strings(n) == Tuples(n, Alphabet)

ViewStages == {"prospect", "decision", "won"}
ViewOrgs == { <<"A", " ", "b">>, <<"a", "B">> }
ViewAmounts == {Null, 2, 5}

ViewDealOf(i, f) == Deal(DealIdAt(i), f[1], f[2], f[3], Null, 0)

\* The stores of at most MaxViewDeals deals over these stages, names and amounts.
ViewStores ==
    { [i \in DOMAIN f |-> ViewDealOf(i, f[i])] :
        f \in Tuples(MaxViewDeals, ViewStages \X ViewOrgs \X ViewAmounts) }

\* The state of a board that has loaded `store` and has nothing in flight.
Loaded(store) ==
    /\ deals = store
    /\ db = store
    /\ loading = FALSE
    /\ error = NoError
    /\ viewingDeal = <<>>
    /\ ops = [i \in Slots |-> IdleOp]
    /\ dragging = FALSE
    /\ dataTransfer = NoPayload
    /\ nCalls = 0
    /\ ev = NoEvent
    /\ showDealForm = FALSE
    /\ editingDeal = <<>>
    /\ form = NoForm
    /\ user = TRUE
    /\ nInserts = 0
    /\ pointer = Outside
    /\ isDragOver = NoColumnHovered

BoardViewInit ==
    /\ \E store \in ViewStores : Loaded(store)
    /\ searchQuery = <<>>
    /\ clock = 0
    /\ tz = 0

\* The search input's onChange: setSearchQuery(e.target.value)
SetSearchQuery(q) ==
    /\ BoardShown
    /\ searchQuery' = q
    /\ ev' = NoEvent
    /\ UNCHANGED <<deals, loading, error, viewingDeal, db, clock, tz, hoverVars, ops, dragging,
                   dataTransfer, nCalls, formVars>>

\* The clear button, rendered while searchQuery is not empty: setSearchQuery('')
ClearSearch ==
    /\ BoardShown
    /\ searchQuery # <<>>
    /\ searchQuery' = <<>>
    /\ ev' = NoEvent
    /\ UNCHANGED <<deals, loading, error, viewingDeal, db, clock, tz, hoverVars, ops, dragging,
                   dataTransfer, nCalls, formVars>>

BoardViewNext ==
    \/ \E q \in Strings(MaxQueryLen) : SetSearchQuery(q)
    \/ ClearSearch

BoardViewSpec == BoardViewInit /\ [][BoardViewNext]_vars

RECURSIVE ColumnTotals(_)
\* The sum of StageColumn.totalValue over the first k columns of the board.
ColumnTotals(k) ==
    IF k = 0 THEN 0 ELSE totalValue(STAGES[k].id) + ColumnTotals(k - 1)

\* C7 as stated: for every store and every search query, the per-stage totals
\* shown by the columns add up to pipeline value + won value.
C7_ColumnsSumToPipelinePlusWon ==
    ColumnTotals(Len(STAGES)) = pipelineValue + wonValue

\* C7 as amended: the columns' totals add up to the amounts (absent as 0) of the
\* deals the search filter keeps; this is pipeline value + won value when the
\* search query is empty, and never more than it.
C7_ColumnsSumToFilteredAmounts ==
    /\ ColumnTotals(Len(STAGES)) = SumAmounts(filteredDeals)
    /\ ColumnTotals(Len(STAGES)) <= pipelineValue + wonValue
    /\ searchQuery = <<>> => ColumnTotals(Len(STAGES)) = pipelineValue + wonValue

C7_Witness ==
    /\ searchQuery # <<>>
    /\ Len(filteredDeals) = 1
    /\ Len(deals) = 2
    /\ \E i \in DOMAIN deals : deals[i].amount = Null
    /\ wonValue > 0
    /\ ColumnTotals(Len(STAGES)) < pipelineValue + wonValue

\* q occurs in s as a contiguous substring, letters compared without their case.
ContainsIgnoringCase(s, q) ==
    \E k \in 0..(Len(s) - Len(q)) :
        \A j \in 1..Len(q) : LowerChar(s[k + j]) = LowerChar(q[j])

OnlyWhitespace(q) == \A j \in DOMAIN q : q[j] = " "

\* C9: the filter returns, in source order, the deals whose organization contains
\* the query as a case-insensitive substring; the full list for an empty query and
\* for a query of whitespace only; the empty list when no organization matches.
C9_SearchFilter ==
    /\ OnlyWhitespace(searchQuery) => filteredDeals = deals
    /\ ~OnlyWhitespace(searchQuery) =>
          filteredDeals =
              SelectSeq(deals, LAMBDA d : ContainsIgnoringCase(d.organization, searchQuery))
    /\ (\A i \in DOMAIN deals : ~ContainsIgnoringCase(deals[i].organization, searchQuery))
          => filteredDeals = <<>>


(***************************************************************************)
(* The date views on their own: a loaded board whose deals have any next   *)
(* action date or none, in any time zone, as the clock runs.               *)
(***************************************************************************)
MaxTime == TicksPerDay * (MaxDay + 1) - 1

Times == 0..MaxTime

\* Offsets of less than a day either side of UTC.
TzOffsets == (1 - TicksPerDay)..(TicksPerDay - 1)

DateDealOf(i, f) == Deal(DealIdAt(i), "prospect", <<"a">>, Null, f, 0)

\* The stores of at most MaxViewDeals deals with any next action date or none.
DateStores ==
    { [i \in DOMAIN f |-> DateDealOf(i, f[i])] :
        f \in Tuples(MaxViewDeals, Times \cup {Null}) }

DateInit ==
    /\ \E store \in DateStores : Loaded(store)
    /\ searchQuery = <<>>
    /\ clock \in Times
    /\ tz \in TzOffsets

ClockTick ==
    /\ clock < MaxTime
    /\ clock' = clock + 1
    /\ ev' = NoEvent
    /\ UNCHANGED <<deals, loading, error, viewingDeal, searchQuery, db, tz, hoverVars, ops,
                   dragging, dataTransfer, nCalls, formVars>>

DateNext == ClockTick

DateSpec == DateInit /\ [][DateNext]_vars

\* The local calendar day instant t falls in: day d runs from local tick
\* d * TicksPerDay up to, not including, (d + 1) * TicksPerDay.
LocalDay(t) ==
    CHOOSE d \in -1..(MaxDay + 1) :
        d * TicksPerDay <= t + tz /\ t + tz < (d + 1) * TicksPerDay

\* C10: a deal is overdue exactly when it has a next_action_at whose local day is
\* before the current local day; a next action of today is not overdue and is
\* 'today'; a deal without next_action_at is never overdue.
C10_Overdue ==
    /\ \A i \in DOMAIN deals :
          LET next == deals[i].next_action_at IN
          /\ CountsAsOverdue(deals[i]) <=> (next # Null /\ LocalDay(next) < LocalDay(clock))
          /\ next # Null =>
                /\ isOverdue(next) <=> LocalDay(next) < LocalDay(clock)
                /\ isToday(next) <=> LocalDay(next) = LocalDay(clock)
                /\ isToday(next) => ~isOverdue(next)
    /\ overdueCount =
          Cardinality({ i \in DOMAIN deals :
                          /\ deals[i].next_action_at # Null
                          /\ LocalDay(deals[i].next_action_at) < LocalDay(clock) })

\* A next action of yesterday, no more than a day ago, is overdue beside one of
\* today, earlier than now, that is not.
C10_Witness ==
    /\ Len(deals) = 2
    /\ deals[1].next_action_at # Null
    /\ deals[2].next_action_at # Null
    /\ isOverdue(deals[1].next_action_at)
    /\ clock - deals[1].next_action_at <= TicksPerDay
    /\ isToday(deals[2].next_action_at)
    /\ deals[2].next_action_at < clock
    /\ overdueCount = 1
    /\ tz # 0

(***************************************************************************)
(* The funnel on its own: the store grows by one deal at a time, in any    *)
(* stage (a create followed by its reload puts the new deal first).        *)
(***************************************************************************)
FunnelInit ==
    /\ Loaded(<<>>)
    /\ searchQuery = <<>>
    /\ clock = 0
    /\ tz = 0

DealAdded(stageId) ==
    /\ Len(deals) < MaxFunnelDeals
    /\ deals' = << Deal(DealIdAt(Len(deals) + 1), stageId, <<"a">>, Null, Null, 0) >> \o deals
    /\ db' = deals'
    /\ ev' = NoEvent
    /\ UNCHANGED <<loading, error, viewingDeal, searchQuery, clock, tz, hoverVars, ops, dragging,
                   dataTransfer, nCalls, formVars>>

FunnelNext == \E s \in StageIds : DealAdded(s)

FunnelSpec == FunnelInit /\ [][FunnelNext]_vars

RECURSIVE FunnelSum(_)
\* The sum of funnelData's percentages over the first k stages, 'won' left out.
FunnelSum(k) ==
    IF k = 0 THEN 0
    ELSE (IF STAGES[k].id # "won" THEN FunnelPercentage(STAGES[k].id) ELSE 0)
         + FunnelSum(k - 1)

\* C8 as stated: with at least one deal outside 'won' the six percentages add up
\* to 99, 100 or 101; with none, each percentage is 0.
C8_FunnelSumsTo100 ==
    /\ totalDeals > 0 => FunnelSum(Len(STAGES)) \in 99..101
    /\ totalDeals = 0 => \A s \in FunnelStages : FunnelPercentage(s) = 0

\* C8 as amended: six roundings can each be off by up to one half, so the sum is
\* within 3 of 100; with no deal outside 'won', each percentage is 0.
C8_FunnelSumsNear100 ==
    /\ totalDeals > 0 => FunnelSum(Len(STAGES)) \in 97..103
    /\ totalDeals = 0 => \A s \in FunnelStages : FunnelPercentage(s) = 0

C8_Witness ==
    /\ totalDeals = 6
    /\ FunnelSum(Len(STAGES)) = 102

(***************************************************************************)
(* The stale view on its own: a loaded board whose deals were last active  *)
(* at any of a few instants, as the clock runs past the stale threshold.   *)
(***************************************************************************)
MaxStaleTime == TicksPerDay * (StaleDays + MaxDay) - 1

StaleStages == {"prospect", "won"}

\* Last activities at the start of time, within the first day, a day in, and
\* after the latest reading of the clock.
StaleActivities == {0, 1, TicksPerDay, MaxStaleTime + 1}

StaleDealOf(i, f) == Deal(DealIdAt(i), f[1], <<"a">>, Null, Null, f[2])

StaleStores ==
    { [i \in DOMAIN f |-> StaleDealOf(i, f[i])] :
        f \in Tuples(MaxViewDeals, StaleStages \X StaleActivities) }

StaleInit ==
    /\ \E store \in StaleStores : Loaded(store)
    /\ searchQuery = <<>>
    /\ clock = 0
    /\ tz = 0

StaleClockTick ==
    /\ clock < MaxStaleTime
    /\ clock' = clock + 1
    /\ ev' = NoEvent
    /\ UNCHANGED <<deals, loading, error, viewingDeal, searchQuery, db, tz, hoverVars, ops,
                   dragging, dataTransfer, nCalls, formVars>>

StaleNext == StaleClockTick

StaleSpec == StaleInit /\ [][StaleNext]_vars

InStaleSet(deal) == \E k \in DOMAIN staleDeals : staleDeals[k].id = deal.id

\* C11: a deal is in the stale set exactly when its stage is not 'won' and at
\* least 14 whole days lie between its last activity and now; a deal in stage
\* 'won' is never stale, whatever its last activity.
C11_StaleSet ==
    \A i \in DOMAIN deals :
        /\ InStaleSet(deals[i]) <=>
              /\ deals[i].stage_id # "won"
              /\ clock - deals[i].last_activity_at >= StaleDays * TicksPerDay
        /\ deals[i].stage_id = "won" => ~InStaleSet(deals[i])

\* A deal exactly 14 days inactive is stale next to a won deal inactive as long
\* and a deal one tick short of 14 days.
C11_Witness ==
    /\ Len(deals) = 2
    /\ deals[1].stage_id = "prospect"
    /\ clock - deals[1].last_activity_at = StaleDays * TicksPerDay
    /\ InStaleSet(deals[1])
    /\ \/ deals[2].stage_id = "won" /\ deals[2].last_activity_at = deals[1].last_activity_at
       \/ /\ deals[2].stage_id = "prospect"
          /\ clock - deals[2].last_activity_at = StaleDays * TicksPerDay - 1
    /\ ~InStaleSet(deals[2])

(***************************************************************************)
(* Properties of loading, reloading and overlapping stage changes.         *)
(***************************************************************************)
\* The full-page error view, with its retry button, is what the board renders.
ErrorViewShown == ~loading /\ error # NoError

\* C15: a fetch that fails (initial load or reload) leaves the board in the
\* full-page error state with the retry button and leaves the deals it held
\* untouched; a fetch that succeeds, a retry's included, clears the error and
\* replaces the store with the fetched deals.
C15_FetchOutcome ==
    [][ \A i \in Slots :
          /\ (ops[i].pc = "fetchErr" /\ ops'[i].pc = "idle") =>
                /\ ErrorViewShown'
                /\ deals' = deals
          /\ (ops[i].pc = "fetchOk" /\ ops'[i].pc = "idle") =>
                /\ error' = NoError
                /\ ~loading'
                /\ deals' = ops[i].data ]_vars

\* The error view is up after a failed reload, the store still holds what it
\* held, and the fetch of a retry is about to return other deals.
C15_Witness ==
    /\ ErrorViewShown
    /\ ev.kind = "fetched" \/ ev.kind = ""
    /\ deals # <<>>
    /\ \E i \in Slots :
          /\ ops[i].kind = "fetch"
          /\ ops[i].pc = "fetchOk"
          /\ ops[i].data # deals

\* No write and no reload (nor any other fetch) is in flight.
Quiescent == \A i \in Slots : ops[i].pc = "idle"

\* Every deal of the store has the stage persistence holds for it.
StagesAgree ==
    \A k \in DOMAIN deals : \A j \in DOMAIN db :
        deals[k].id = db[j].id => deals[k].stage_id = db[j].stage_id

\* C17: once no write and no reload is in flight, every deal's stage_id in the
\* store equals its stage_id in persistence, whatever the outcomes of the
\* writes and the order of the responses (stated for the boards on which no
\* fetch has failed, so that every reload that ran has delivered its rows).
C17_ReloadConverges ==
    (Quiescent /\ BoardShown) => StagesAgree

\* The stage persistence holds for the deal.
DbHas(dealId, stageId) ==
    \E j \in DOMAIN db : db[j].id = dealId /\ db[j].stage_id = stageId

\* Calls i and j changed the same deal, j after i by the clock, j before the
\* write of i had returned, and both writes have succeeded.
RacedAndSucceeded(i, j) ==
    /\ i # j
    /\ ops[i].kind = "stage" /\ ops[i].pc = "writeOk"
    /\ ops[j].kind = "stage" /\ ops[j].pc = "writeOk"
    /\ ops[i].dealId = ops[j].dealId
    /\ ops[i].ts < ops[j].opt

\* C18: of two changeStage calls for the same deal, to s1 and then to s2, the
\* second made before the first write has returned, no update is lost: when both
\* writes have succeeded, the store and persistence both hold stage s2.
C18_RacingCallsSerialized ==
    \A i, j \in Slots :
        RacedAndSucceeded(i, j) =>
            /\ StoreHas(ops[j].dealId, ops[j].stage)
            /\ DbHas(ops[j].dealId, ops[j].stage)

\* The write of a call is issued in this step, into slot i.
WriteIssued(i) == ops[i].pc # "write" /\ ops'[i].pc = "write"

\* C19: the optimistic mutation is applied before the write is issued: in the
\* state in which a write has just been issued, the store already shows the
\* deal with the stage and the last_activity_at of the optimistic mutation.
C19_OptimisticBeforeWrite ==
    [][ \A i \in Slots :
          WriteIssued(i) =>
            \A k \in DOMAIN deals' :
                deals'[k].id = ops'[i].dealId =>
                    /\ deals'[k].stage_id = ops'[i].stage
                    /\ deals'[k].last_activity_at = ops'[i].opt ]_vars

\* A write has been issued and is unanswered, persistence still holds the old
\* stage, and the store shows the new one.
C19_Witness ==
    \E i \in Slots :
        /\ ops[i].kind = "stage"
        /\ ops[i].pc = "write"
        /\ ev.calls = << Call(ops[i].dealId, ops[i].stage) >>
        /\ ~DbHas(ops[i].dealId, ops[i].stage)
        /\ StoreHas(ops[i].dealId, ops[i].stage)

FetchPcs == {"fetch", "fetchOk", "fetchErr"}

\* The selects in flight or on their way back.
FetchesInFlight == { i \in Slots : ops[i].pc \in FetchPcs }

\* C20: each changeStage call issues exactly one write and never retries it; a
\* failed write triggers exactly one reload and one report to the error log and
\* nothing else; a successful write triggers no reload; no write is issued
\* unless handleStageChange is called again.
C20_OneWriteNoRetry ==
    [][ /\ nCalls' # nCalls =>
              /\ nCalls' = nCalls + 1
              /\ Cardinality({ i \in Slots : WriteIssued(i) }) = 1
        /\ \A i \in Slots :
              /\ WriteIssued(i) => ops[i].pc = "idle" /\ nCalls' = nCalls + 1
              /\ (ops[i].pc = "writeOk" /\ ops'[i] # ops[i]) =>
                    /\ ops'[i].pc = "idle"
                    /\ FetchesInFlight' = FetchesInFlight
                    /\ ev'.kind # "writeFailed"
              /\ (ops[i].pc = "writeErr" /\ ops'[i] # ops[i]) =>
                    /\ ops'[i].pc = "fetch"
                    /\ FetchesInFlight' = FetchesInFlight \cup {i}
                    /\ ev'.kind = "writeFailed"
                    /\ deals' = deals /\ db' = db
              /\ (ops[i].kind = "stage" /\ ops[i].pc \in FetchPcs) =>
                    /\ ops'[i].pc \in FetchPcs \cup {"idle"}
                    /\ ops[i].pc # "fetch" => ops'[i].pc # "fetch"
        /\ ev'.kind = "writeFailed" =>
              \E i \in Slots : ops[i].pc = "writeErr" /\ ops'[i].pc = "fetch" ]_vars

\* A failed write has just been reported and its one reload is in flight.
C20_Witness ==
    /\ ev.kind = "writeFailed"
    /\ Cardinality({ i \in Slots : ops[i].kind = "stage" /\ ops[i].pc = "fetch" }) = 1
    /\ nCalls = 1

(***************************************************************************)
(* The deal form and the handlers behind it: handleCreateDeal,             *)
(* handleUpdateDeal, handleDeleteDeal, handleAddProspect and               *)
(* handleDeleteProspect (PipelineBoard), handleSubmit and handleDelete     *)
(* (DealForm).  pc: "auth" is a getUser request the identity provider has  *)
(* not answered, "crudWrite" a write and "crudFetch" the following select  *)
(* persistence has not answered; the others are answers on their way back. *)
(***************************************************************************)
MaxInserts == 1
MaxFormCalls == 1

NotLoggedIn == "Niet ingelogd"
CrudError == "Er ging iets mis"
DeleteError == "Verwijderen mislukt"

FormKinds == {"create", "update", "delete"}

\* Unmounting the form: its pending handlers no longer reach its state.
Detached(os) == [ i \in Slots |-> [ os[i] EXCEPT !.attached = FALSE ] ]

CrudOp(pc, kind, dealId, payload, attached) ==
    [ IdleOp EXCEPT !.pc = pc, !.kind = kind, !.dealId = dealId, !.ts = clock,
                    !.payload = << payload >>, !.attached = attached ]

\* The 'Nieuwe deal' button and the N key: setShowDealForm(true)
OpenNewForm ==
    /\ BoardShown
    /\ CanClick
    /\ ~showDealForm
    /\ showDealForm' = TRUE
    /\ form' = IF editingDeal = <<>> THEN NewForm ELSE EditForm(editingDeal[1])
    /\ ev' = NoEvent
    /\ UNCHANGED <<deals, loading, error, viewingDeal, searchQuery, db, clock, tz, hoverVars, ops,
                   dragging, dataTransfer, nCalls, editingDeal, user, nInserts>>

\* handleEditDeal, from a card
EditDeal(i) ==
    /\ CardsUsable
    /\ CanClick
    /\ ~showDealForm
    /\ HasCard(deals[i])
    /\ editingDeal' = << deals[i] >>
    /\ showDealForm' = TRUE
    /\ form' = EditForm(deals[i])
    /\ ev' = NoEvent
    /\ UNCHANGED <<deals, loading, error, viewingDeal, searchQuery, db, clock, tz, hoverVars, ops,
                   dragging, dataTransfer, nCalls, user, nInserts>>

\* handleCloseForm, as the form's onClose and on the Escape key
CloseForm ==
    /\ showDealForm
    /\ showDealForm' = FALSE
    /\ editingDeal' = <<>>
    /\ form' = NoForm
    /\ ops' = Detached(ops)
    /\ ev' = NoEvent
    /\ UNCHANGED <<deals, loading, error, viewingDeal, searchQuery, db, clock, tz, hoverVars,
                   dragging, dataTransfer, nCalls, user, nInserts>>

FormShown == BoardShown /\ showDealForm

\* The operations that have not resolved yet.
FormCallsInFlight == Slots \ FreeSlots

\* One more call of a handler that writes may be made: the calls are bounded,
\* and so are the operations in flight at the moment of the call.
MayCall ==
    /\ FreeSlots # {}
    /\ nCalls < MaxCalls
    /\ Cardinality(FormCallsInFlight) < MaxFormCalls

\* The form's inputs, typed into while no request of the form is pending:
\* setOrganization, setAmount
TypeInForm(field, value) ==
    /\ FormShown
    /\ ~form.submitting /\ ~form.deleting
    /\ form' = [ form EXCEPT ![field] = value ]
    /\ ev' = NoEvent
    /\ UNCHANGED <<deals, loading, error, viewingDeal, searchQuery, db, clock, tz, hoverVars, ops,
                   dragging, dataTransfer, nCalls, showDealForm, editingDeal, user,
                   nInserts>>

\* The operations that may still get a row inserted.
CreatesInFlight ==
    { i \in Slots : /\ ops[i].kind \in {"create", "addProspect"}
                    /\ ops[i].pc \in {"auth", "authUser", "crudWrite"} }

\* The call of onSubmit: handleCreateDeal without a deal being edited (it starts
\* with getUser), handleUpdateDeal otherwise (it starts with the update).
OnSubmit(data) ==
    /\ MayCall
    /\ nCalls' = nCalls + 1
    /\ IF editingDeal = <<>>
       THEN /\ nInserts + Cardinality(CreatesInFlight) < MaxInserts
            /\ ops' = [ops EXCEPT ![FreeSlot] = CrudOp("auth", "create", "", data, TRUE)]
       ELSE ops' = [ops EXCEPT ![FreeSlot] =
                       CrudOp("crudWrite", "update", editingDeal[1].id, data, TRUE)]

\* DealForm.handleSubmit up to its await.
HandleSubmit ==
    /\ FormShown
    /\ ~form.submitting /\ ~form.deleting
    /\ IF ValidationError(form) # NoError
       THEN /\ form' = [ form EXCEPT !.error = ValidationError(form) ]
            /\ UNCHANGED <<ops, nCalls>>
       ELSE /\ form' = [ form EXCEPT !.error = NoError, !.submitting = TRUE ]
            /\ OnSubmit(SubmitData(form))
    /\ ev' = Event("submit", <<>>)
    /\ UNCHANGED <<deals, loading, error, viewingDeal, searchQuery, db, clock, tz, hoverVars,
                   dragging, dataTransfer, showDealForm, editingDeal, user,
                   nInserts>>

\* DealForm.handleDelete, confirmed, up to its await: handleDeleteDeal.
HandleDelete ==
    /\ FormShown
    /\ editingDeal # <<>>
    /\ ~form.submitting /\ ~form.deleting
    /\ MayCall
    /\ nCalls' = nCalls + 1
    /\ form' = [ form EXCEPT !.deleting = TRUE ]
    /\ ops' = [ops EXCEPT ![FreeSlot] =
                  CrudOp("crudWrite", "delete", editingDeal[1].id, [none |-> TRUE], TRUE)]
    /\ ev' = Event("delete", <<>>)
    /\ UNCHANGED <<deals, loading, error, viewingDeal, searchQuery, db, clock, tz, hoverVars,
                   dragging, dataTransfer, showDealForm, editingDeal, user,
                   nInserts>>

\* handleAddProspect, which the board hands to the form.
HandleAddProspect(dealId, name) ==
    /\ FormShown
    /\ MayCall
    /\ nInserts + Cardinality(CreatesInFlight) < MaxInserts
    /\ nCalls' = nCalls + 1
    /\ ops' = [ops EXCEPT ![FreeSlot] =
                  CrudOp("crudWrite", "addProspect", dealId, [name |-> name], FALSE)]
    /\ ev' = Event("addProspect", <<>>)
    /\ UNCHANGED <<deals, loading, error, viewingDeal, searchQuery, db, clock, tz, hoverVars,
                   dragging, dataTransfer, formVars>>

\* handleDeleteProspect, which the board hands to the form.
HandleDeleteProspect(dealId, prospectId) ==
    /\ FormShown
    /\ MayCall
    /\ nCalls' = nCalls + 1
    /\ ops' = [ops EXCEPT ![FreeSlot] =
                  CrudOp("crudWrite", "deleteProspect", dealId, [id |-> prospectId], FALSE)]
    /\ ev' = Event("deleteProspect", <<>>)
    /\ UNCHANGED <<deals, loading, error, viewingDeal, searchQuery, db, clock, tz, hoverVars,
                   dragging, dataTransfer, formVars>>

\* The session ends (expiry, or a sign-out elsewhere).
SessionEnds ==
    /\ user
    /\ user' = FALSE
    /\ ev' = NoEvent
    /\ UNCHANGED <<deals, loading, error, viewingDeal, searchQuery, db, clock, tz, hoverVars, ops,
                   dragging, dataTransfer, nCalls, showDealForm, editingDeal, form,
                   nInserts>>

\* The identity provider answers getUser.
AuthServe(i) ==
    /\ ops[i].pc = "auth"
    /\ ops' = [ops EXCEPT ![i].pc = IF user THEN "authUser" ELSE "authNone"]
    /\ ev' = NoEvent
    /\ UNCHANGED <<deals, loading, error, viewingDeal, searchQuery, db, clock, tz, hoverVars,
                   dragging, dataTransfer, nCalls, formVars>>

\* handleCreateDeal issuing its insert without looking at userData.user.
AuthReturn_unguarded(i) ==
    /\ ops[i].pc \in {"authUser", "authNone"}
    /\ ops' = [ops EXCEPT ![i].pc = "crudWrite", ![i].ts = clock]
    /\ ev' = NoEvent
    /\ UNCHANGED <<deals, loading, error, viewingDeal, searchQuery, db, clock, tz, hoverVars,
                   dragging, dataTransfer, nCalls, formVars>>

\* handleCreateDeal after getUser, with a user: now = new Date(); the insert.
AuthReturn(i) ==
    /\ ops[i].pc = "authUser"
    /\ ops' = [ops EXCEPT ![i].pc = "crudWrite", ![i].ts = clock]
    /\ ev' = NoEvent
    /\ UNCHANGED <<deals, loading, error, viewingDeal, searchQuery, db, clock, tz, hoverVars,
                   dragging, dataTransfer, nCalls, formVars>>

\* The catch and finally of handleSubmit and handleDelete, in the form that
\* made the call if it is still mounted.
FormCatch(op, message) ==
    IF op.attached
    THEN form' = [ form EXCEPT !.error = message, !.submitting = FALSE,
                               !.deleting = FALSE ]
    ELSE form' = form

\* handleCreateDeal after getUser, without a user: throw new Error('Niet ingelogd')
AuthReturnNone(i) ==
    /\ ops[i].pc = "authNone"
    /\ ops' = [ops EXCEPT ![i] = IdleOp]
    /\ FormCatch(ops[i], NotLoggedIn)
    /\ ev' = Event("notLoggedIn", <<>>)
    /\ UNCHANGED <<deals, loading, error, viewingDeal, searchQuery, db, clock, tz, hoverVars,
                   dragging, dataTransfer, nCalls, showDealForm, editingDeal, user,
                   nInserts>>

\* The ids persistence gives to the rows it inserts.
NewId == DealIdAt(Len(InitialRows) + nInserts + 1)

HasRow(rows, dealId) == \E k \in DOMAIN rows : rows[k].id = dealId

\* insert(...) into deals: the new row is the most recently created one.
InsertDeal(rows, data, ts) ==
    << Deal(NewId, data.stage_id, data.organization, data.amount,
            data.next_action_at, ts) >> \o rows

\* update({...data, last_activity_at}).eq('id', dealId)
UpdateDeal(rows, dealId, data, ts) ==
    [ k \in DOMAIN rows |->
        IF rows[k].id = dealId
        THEN [ rows[k] EXCEPT !.organization = data.organization,
                              !.amount = data.amount,
                              !.stage_id = data.stage_id,
                              !.next_action_at = data.next_action_at,
                              !.last_activity_at = ts ]
        ELSE rows[k] ]

\* delete().eq('id', dealId)
DeleteDeal(rows, dealId) == SelectSeq(rows, LAMBDA d : d.id # dealId)

\* insert({deal_id, name, notes}) into deal_prospects, seen through the embedded
\* select of fetchDeals.
InsertProspect(rows, dealId, name) ==
    [ k \in DOMAIN rows |->
        IF rows[k].id = dealId
        THEN [ rows[k] EXCEPT !.prospects = Append(@, [ id |-> NewId, name |-> name ]) ]
        ELSE rows[k] ]

\* delete().eq('id', prospectId) on deal_prospects
DeleteProspect(rows, prospectId) ==
    [ k \in DOMAIN rows |->
        [ rows[k] EXCEPT !.prospects = SelectSeq(@, LAMBDA q : q.id # prospectId) ] ]

\* The rows after the write of `op` has been applied.
Written(rows, op) ==
    CASE op.kind = "create"  -> InsertDeal(rows, op.payload[1], op.ts)
      [] op.kind = "update"  -> UpdateDeal(rows, op.dealId, op.payload[1], op.ts)
      [] op.kind = "delete"  -> DeleteDeal(rows, op.dealId)
      [] op.kind = "addProspect" -> InsertProspect(rows, op.dealId, op.payload[1].name)
      [] op.kind = "deleteProspect" -> DeleteProspect(rows, op.payload[1].id)

\* Persistence answers a write: applied, or an error and nothing applied.  A
\* prospect of a deal that does not exist is refused.
CrudServe(i) ==
    /\ ops[i].pc = "crudWrite"
    /\ \/ /\ ops[i].kind = "addProspect" => HasRow(db, ops[i].dealId)
          /\ db' = Written(db, ops[i])
          /\ nInserts' = IF ops[i].kind \in {"create", "addProspect"}
                         THEN nInserts + 1 ELSE nInserts
          /\ ops' = [ops EXCEPT ![i].pc = "crudOk"]
       \/ /\ db' = db
          /\ nInserts' = nInserts
          /\ ops' = [ops EXCEPT ![i].pc = "crudErr"]
    /\ ev' = IF ops'[i].pc = "crudOk" THEN OpEvent("served", ops[i]) ELSE NoEvent
    /\ UNCHANGED <<deals, loading, error, viewingDeal, searchQuery, clock, tz, hoverVars,
                   dragging, dataTransfer, nCalls, showDealForm, editingDeal, form,
                   user>>

\* The message the catch of the form shows for a failed write.
WriteErrorOf(op) == IF op.kind = "delete" THEN DeleteError ELSE CrudError

\* A handler that reloads after a failed write instead of throwing.
CrudReturnErr_reloading(i) ==
    /\ ops[i].pc = "crudErr"
    /\ ops' = [ops EXCEPT ![i].pc = "crudFetch"]
    /\ form' = form
    /\ ev' = Event("crudFailed", <<>>)
    /\ UNCHANGED <<deals, loading, error, viewingDeal, searchQuery, db, clock, tz, hoverVars,
                   dragging, dataTransfer, nCalls, showDealForm, editingDeal, user,
                   nInserts>>

\* if (error) throw error, caught by the form
CrudReturnErr(i) ==
    /\ ops[i].pc = "crudErr"
    /\ ops' = [ops EXCEPT ![i] = IdleOp]
    /\ FormCatch(ops[i], WriteErrorOf(ops[i]))
    /\ ev' = Event("crudFailed", <<>>)
    /\ UNCHANGED <<deals, loading, error, viewingDeal, searchQuery, db, clock, tz, hoverVars,
                   dragging, dataTransfer, nCalls, showDealForm, editingDeal, user,
                   nInserts>>

\* no error: await fetchDeals()
CrudReturnOk(i) ==
    /\ ops[i].pc = "crudOk"
    /\ ops' = [ops EXCEPT ![i].pc = "crudFetch"]
    /\ ev' = NoEvent
    /\ UNCHANGED <<deals, loading, error, viewingDeal, searchQuery, db, clock, tz, hoverVars,
                   dragging, dataTransfer, nCalls, formVars>>

\* Persistence answers the select of that fetchDeals.
CrudFetchServe(i) ==
    /\ ops[i].pc = "crudFetch"
    /\ \/ ops' = [ops EXCEPT ![i].pc = "crudFetchOk", ![i].data = db]
       \/ ops' = [ops EXCEPT ![i].pc = "crudFetchErr"]
    /\ ev' = NoEvent
    /\ UNCHANGED <<deals, loading, error, viewingDeal, searchQuery, db, clock, tz, hoverVars,
                   dragging, dataTransfer, nCalls, formVars>>

\* fetchDeals returns, with or without an error it has caught itself, and the
\* handler that awaited it resolves: the form's handler calls onClose().
CrudFetchReturn(i) ==
    /\ ops[i].pc \in {"crudFetchOk", "crudFetchErr"}
    /\ IF ops[i].pc = "crudFetchOk"
       THEN deals' = ops[i].data /\ error' = NoError
       ELSE deals' = deals /\ error' = FetchError
    /\ loading' = FALSE
    /\ IF ops[i].kind \in FormKinds
       THEN /\ showDealForm' = FALSE
            /\ editingDeal' = <<>>
            /\ form' = NoForm
            /\ ops' = [ Detached(ops) EXCEPT ![i] = IdleOp ]
       ELSE /\ UNCHANGED <<showDealForm, editingDeal, form>>
            /\ ops' = [ops EXCEPT ![i] = IdleOp]
    /\ ev' = OpEvent("resolved", ops[i])
    /\ UNCHANGED <<viewingDeal, searchQuery, db, clock, tz, hoverVars, dragging, dataTransfer,
                   nCalls, user, nInserts>>

\* What is typed into the form.
FormOrganizations == { <<" ">>, <<"b", " ">> }
FormAmounts == { <<"-", "5">> }
ProspectNames == { <<"p">> }

\* The prospects the store shows for the deal.
ProspectIds(dealId) ==
    UNION { { deals[k].prospects[j].id : j \in DOMAIN deals[k].prospects } :
              k \in { n \in DOMAIN deals : deals[n].id = dealId } }

CrudNext ==
    \/ \E i \in Slots : FetchServe(i)
    \/ \E i \in Slots : FetchReturnOk(i)
    \/ \E i \in Slots : FetchReturnErr(i)
    \/ Retry
    \/ OpenNewForm
    \/ \E i \in DOMAIN deals : EditDeal(i)
    \/ CloseForm
    \/ \E s \in FormOrganizations : TypeInForm("organization", s)
    \/ \E s \in FormAmounts : TypeInForm("amount", s)
    \/ HandleSubmit
    \/ HandleDelete
    \/ \E d \in ApiDealIds : \E n \in ProspectNames : HandleAddProspect(d, n)
    \/ \E d \in ApiDealIds : \E q \in ProspectIds(d) : HandleDeleteProspect(d, q)
    \/ SessionEnds
    \/ \E i \in Slots : AuthServe(i)
    \/ \E i \in Slots : AuthReturn(i)
    \/ \E i \in Slots : AuthReturnNone(i)
    \/ \E i \in Slots : CrudServe(i)
    \/ \E i \in Slots : CrudReturnErr(i)
    \/ \E i \in Slots : CrudReturnOk(i)
    \/ \E i \in Slots : CrudFetchServe(i)
    \/ \E i \in Slots : CrudFetchReturn(i)
    \/ Tick

CrudSpec == Init /\ [][CrudNext]_vars

(***************************************************************************)
(* Properties of the deal form and of create, update and delete.           *)
(***************************************************************************)
\* The requests a reload consists of.
ReloadPcs == FetchPcs \cup {"crudFetch", "crudFetchOk", "crudFetchErr"}

ReloadsInFlight == { i \in Slots : ops[i].pc \in ReloadPcs }

\* The steps of the create, update or delete in slot i, from the call of the
\* handler up to the answer of its write.
StepBeforeConfirm(i) ==
    /\ ops[i].kind \in FormKinds \/ ops'[i].kind \in FormKinds
    /\ ops'[i].pc # ops[i].pc
    /\ ops[i].pc \in {"idle", "auth", "authUser", "authNone", "crudWrite", "crudOk",
                       "crudErr"}

\* The write of the create, update or delete in slot i has failed and its
\* handler throws.
WriteFails(i) ==
    /\ ops[i].kind \in FormKinds
    /\ ops[i].pc = "crudErr"
    /\ ops'[i].pc # "crudErr"

NoUserReported(i) ==
    /\ ops[i].kind = "create"
    /\ ops[i].pc = "authNone"
    /\ ops'[i].pc # "authNone"

\* C16: a createDeal whose getUser reports no authenticated user throws
\* 'Niet ingelogd' before any insert is issued: the operation ends without a
\* write request, persistence and the store are unchanged, and the form that
\* made the call shows the message; an insert is only ever issued after an
\* answer with a user.
C16_NoUserNoInsert ==
    [][ \A i \in Slots :
          /\ NoUserReported(i) =>
                /\ ops'[i].pc = "idle"
                /\ deals' = deals
                /\ db' = db
                /\ nInserts' = nInserts
                /\ ops[i].attached => form'.error = NotLoggedIn
          /\ (ops'[i].kind = "create" /\ ops'[i].pc = "crudWrite"
                /\ ops[i].pc # "crudWrite") => ops[i].pc = "authUser" ]_vars

\* A createDeal has been refused for lack of a user: the form shows the
\* message, nothing was inserted.
C16_Witness ==
    /\ ev.kind = "notLoggedIn"
    /\ ~user
    /\ showDealForm
    /\ form.error = NotLoggedIn
    /\ nInserts = 0
    /\ db = InitialRows

\* Persistence applies the write of slot i, a write to a deal that leaves the
\* deal in place.
WriteApplied(i) ==
    /\ ops[i].pc = "crudWrite"
    /\ ops'[i].pc = "crudOk"
    /\ ops[i].kind \in {"create", "update", "addProspect", "deleteProspect"}

\* The rows of the deal the write of slot i is a write to: the inserted row of
\* a create, the row of the given id otherwise.
DealWritten(i) ==
    IF ops[i].kind = "create"
    THEN { k \in DOMAIN db' : ~HasRow(db, db'[k].id) }
    ELSE { k \in DOMAIN db' : db'[k].id = ops[i].dealId }

\* C14: every successful write to a deal (create, field edit, adding a
\* prospect, removing a prospect) leaves the deal's persisted last_activity_at
\* at a clock value of that write, between the handler's call and the moment
\* persistence applies it.
C14_WriteSetsLastActivity ==
    [][ \A i \in Slots :
          WriteApplied(i) =>
            \A k \in DealWritten(i) :
               /\ ops[i].ts <= db'[k].last_activity_at
               /\ db'[k].last_activity_at <= clock ]_vars

(***************************************************************************)
(* The validation of the deal form, over every short text typed into the   *)
(* organization and amount inputs of a new form and of an edit form.       *)
(***************************************************************************)
MaxOrgLen == 2
MaxAmountLen == 3

OrgChars == {"b", " "}
AmountChars == {"5", "-", "x", " "}

ValidationOrganizations == Tuples(MaxOrgLen, OrgChars)
ValidationAmounts == Tuples(MaxAmountLen, AmountChars)

ValidationInit ==
    /\ Loaded(InitialRows)
    /\ searchQuery = <<>>
    /\ clock = 0
    /\ tz = 0

ValidationNext ==
    \/ OpenNewForm
    \/ \E i \in DOMAIN deals : EditDeal(i)
    \/ CloseForm
    \/ \E s \in ValidationOrganizations : TypeInForm("organization", s)
    \/ \E s \in ValidationAmounts : TypeInForm("amount", s)
    \/ HandleSubmit

ValidationSpec == ValidationInit /\ [][ValidationNext]_vars

\* The text has nothing but blanks.
IsBlank(s) == \A k \in DOMAIN s : s[k] = " "

\* What the form holds is not a deal: no organization, or an amount that is
\* given and from which no number or a negative number is read.
InvalidInput(f) ==
    \/ IsBlank(f.organization)
    \/ /\ ~IsBlank(f.amount)
       /\ \/ isNaN(ParseAmount(f.amount))
          \/ ParseAmount(f.amount)[1] < 0

\* C13: submitting the form with an organization that is empty after trimming,
\* or with a non-blank amount that is unparsable or negative, sets the inline
\* error and stops: onSubmit is not called, no request is issued, the form is
\* not submitting, and store and persistence are unchanged.
C13_InvalidSubmitStops ==
    [][ (ev'.kind = "submit" /\ InvalidInput(form)) =>
          /\ form'.error \in {OrganizationError, AmountError}
          /\ form'.error = IF IsBlank(form.organization)
                           THEN OrganizationError ELSE AmountError
          /\ ~form'.submitting
          /\ ops' = ops
          /\ nCalls' = nCalls
          /\ deals' = deals
          /\ db' = db ]_vars

\* A form with an organization and with a negative amount has been submitted
\* and shows the amount error, with nothing in flight.
C13_Witness ==
    /\ ev.kind = "submit"
    /\ ~IsBlank(form.organization)
    /\ form.amount = <<" ", "-", "5">>
    /\ form.error = AmountError
    /\ Quiescent
    /\ nCalls = 0

(***************************************************************************)
(* Properties of the fields a stage change writes.                         *)
(***************************************************************************)
\* The step in which slot i issues the update request of a stage change.
IssuesWrite(i) == ops[i].pc = "idle" /\ ops'[i].pc = "write"

\* C21: the update request of a stage change carries the two field values the
\* optimistic update has put on the deal in the store: the same stage_id and
\* the same last_activity_at.
C21_WriteCarriesOptimisticFields ==
    [][ \A i \in Slots :
          IssuesWrite(i) =>
            \A k \in DOMAIN deals' :
               deals'[k].id = ops'[i].dealId =>
                  /\ deals'[k].stage_id = ops'[i].stage
                  /\ deals'[k].last_activity_at = ops'[i].ts ]_vars

(***************************************************************************)
(* Properties of the drag coordinator.                                     *)
(***************************************************************************)
\* The step ends the drag session without a drop on a column.
EndsWithoutDrop == dragging /\ ~dragging' /\ ev'.kind # "drop"

\* C22: a drag that ends without a drop on a column leaves no drag in
\* progress and has no side effect: it calls changeStage for no deal, issues
\* no request, leaves store and persistence unchanged, and leaves no payload
\* behind for a later drop.
C22_DragEndHasNoEffect ==
    [][ EndsWithoutDrop =>
          /\ ev'.calls = <<>>
          /\ nCalls' = nCalls
          /\ ops' = ops
          /\ deals' = deals
          /\ db' = db
          /\ viewingDeal' = viewingDeal
          /\ dataTransfer' = NoPayload ]_vars

\* A drag of the deal has ended without a drop, on a loaded board.
C22_Witness ==
    /\ ev.kind = "dragEnd"
    /\ ~dragging
    /\ dataTransfer = NoPayload
    /\ deals = InitialRows
    /\ nCalls = 0

(***************************************************************************)
(* The highlight of the columns during a drag.  The platform fires         *)
(* dragover at the element under the pointer, and, when the pointer goes   *)
(* from one element to another, dragleave at the element it leaves with    *)
(* the element it enters as relatedTarget; both bubble to the cards        *)
(* container of the column, which has the handlers.  A drag that is        *)
(* cancelled fires dragleave at the element under the pointer before it    *)
(* ends.                                                                   *)
(***************************************************************************)
PointerPlaces ==
    {Outside} \cup [ col : StageIds, on : {"container", "child"} ]

\* e.currentTarget.contains(e.relatedTarget) for the container of column s.
Contains(s, related) == related.col = s

\* StageColumn.handleDragOver of column s
HandleDragOver(s) == isDragOver' = [ isDragOver EXCEPT ![s] = TRUE ]

\* handleDragLeave that does not look at relatedTarget.
HandleDragLeave_always(s, related) == isDragOver' = [ isDragOver EXCEPT ![s] = FALSE ]

\* StageColumn.handleDragLeave of column s
HandleDragLeave(s, related) ==
    IF ~Contains(s, related)
    THEN isDragOver' = [ isDragOver EXCEPT ![s] = FALSE ]
    ELSE isDragOver' = isDragOver

\* The pointer of the drag goes to another element: dragleave at the one it
\* leaves.
PointerMoves(to) ==
    /\ dragging
    /\ to # pointer
    /\ pointer' = to
    /\ IF pointer.col # "" /\ BoardShown
       THEN HandleDragLeave(pointer.col, to)
       ELSE isDragOver' = isDragOver
    /\ ev' = Event("pointer", <<>>)
    /\ UNCHANGED <<deals, loading, error, viewingDeal, searchQuery, db, clock, tz, ops,
                   dragging, dataTransfer, nCalls, formVars>>

\* dragover at the element under the pointer.
DragOverFires ==
    /\ dragging
    /\ BoardShown
    /\ pointer.col # ""
    /\ HandleDragOver(pointer.col)
    /\ ev' = Event("dragOver", <<>>)
    /\ UNCHANGED <<deals, loading, error, viewingDeal, searchQuery, db, clock, tz, ops,
                   dragging, dataTransfer, nCalls, pointer, formVars>>

\* The button is released over a column.
DropAtPointer == pointer.col # "" /\ Drop(pointer.col)

\* The button is released outside the columns, or the drag is cancelled after
\* its dragleave.
DragEndOutside == pointer = Outside /\ DragEnd

HoverInit ==
    /\ Loaded(InitialRows)
    /\ searchQuery = <<>>
    /\ clock = 0
    /\ tz = 0

HoverNext ==
    \/ \E i \in DOMAIN deals : DragStart(i)
    \/ \E to \in PointerPlaces : PointerMoves(to)
    \/ DragOverFires
    \/ DropAtPointer
    \/ DragEndOutside

HoverSpec == HoverInit /\ [][HoverNext]_vars

IsSubsequenceOf(l, src) ==
    \E f \in [DOMAIN l -> DOMAIN src] :
        /\ \A j \in DOMAIN l : l[j] = src[f[j]]
        /\ \A j, k \in DOMAIN l : j < k => f[j] < f[k]

\* The places of the stages' lists at which the deal with this id appears.
PlacesInGroups(dealId) ==
    { p \in StageIds \X (1..MaxViewDeals) :
        /\ p[2] \in DOMAIN dealsByStage[p[1]]
        /\ dealsByStage[p[1]][p[2]].id = dealId }

\* C24: the per-stage grouping is a partition of the search-filtered list:
\* every filtered deal is at exactly one place of the stages' lists, in the
\* list of its stage_id; the lists hold nothing else; and each list has its
\* deals in the order of the filtered list.
C24_GroupingPartitions ==
    /\ \A k \in DOMAIN filteredDeals :
          /\ Cardinality(PlacesInGroups(filteredDeals[k].id)) = 1
          /\ \A p \in PlacesInGroups(filteredDeals[k].id) :
                p[1] = filteredDeals[k].stage_id
    /\ \A s \in StageIds :
          /\ IsSubsequenceOf(dealsByStage[s], filteredDeals)
          /\ \A j \in DOMAIN dealsByStage[s] : dealsByStage[s][j].stage_id = s

\* Two deals of one stage pass the filter: the stage's list has both, in the
\* order of the store.
C24_Witness ==
    /\ searchQuery # <<>>
    /\ Len(deals) = 2
    /\ deals[1].organization # deals[2].organization
    /\ dealsByStage["decision"] = deals

(***************************************************************************)
(* Properties of the stage registry and the single-step navigation.        *)
(***************************************************************************)
\* The position of the stage with this id.
PositionOf(stageId) ==
    (CHOOSE st \in { STAGES[i] : i \in DOMAIN STAGES } : st.id = stageId).position

\* Stage t comes immediately before stage s in the order of the positions.
ImmediatelyBefore(t, s) ==
    /\ PositionOf(t) < PositionOf(s)
    /\ ~ \E u \in StageIds : PositionOf(t) < PositionOf(u) /\ PositionOf(u) < PositionOf(s)

IsFirstStage(s) == ~ \E t \in StageIds : PositionOf(t) < PositionOf(s)

IsLastStage(s) == ~ \E t \in StageIds : PositionOf(s) < PositionOf(t)

\* The deals a click of this step's kind may have been on: a deal with a card
\* for the card's buttons, the deal the modal shows for the modal's buttons.
Clicked ==
    IF ev'.kind \in {"back", "forward"}
    THEN { deals[i] : i \in { k \in DOMAIN deals : HasCard(deals[k]) } }
    ELSE { viewingDeal[i] : i \in DOMAIN viewingDeal }

FrameRows ==
    << [ Deal("d2", "won", <<"a", "B">>, Null, Null, 1) EXCEPT
            !.prospects = << [ id |-> "p1", name |-> <<"p">> ] >> ]
          @@ [ created_at |-> 1 ],
       Deal("d1", "prospect", <<"A", "b">>, 5, 1, 0) @@ [ created_at |-> 0 ] >>

FrameDealIds == {"d1", "d2", "d9"}

FrameInit ==
    /\ Loaded(FrameRows)
    /\ searchQuery = <<>>
    /\ clock = 0
    /\ tz = 0

FrameNext ==
    \/ \E i \in Slots : FetchServe(i)
    \/ \E i \in Slots : FetchReturnOk(i)
    \/ \E i \in Slots : FetchReturnErr(i)
    \/ \E i \in Slots : WriteServe(i)
    \/ \E i \in Slots : WriteReturnOk(i)
    \/ \E i \in Slots : WriteReturnErr(i)
    \/ \E d \in FrameDealIds : \E s \in StageIds : ApiChangeStage(d, s)
    \/ Tick

FrameSpec == FrameInit /\ [][FrameNext]_vars

\* The list `after` is the list `before` but for the stage_id and the
\* last_activity_at of the deals with this id, whose stage_id is now `stage`.
OnlyStageAndActivity(before, after, dealId, stage) ==
    /\ Len(after) = Len(before)
    /\ \A k \in DOMAIN before :
          IF before[k].id = dealId
          THEN /\ after[k].stage_id = stage
               /\ [ after[k] EXCEPT !.stage_id = before[k].stage_id,
                                    !.last_activity_at = before[k].last_activity_at ]
                     = before[k]
          ELSE after[k] = before[k]

\* C26: changeStage(dealId, s) changes, in the store and then in persistence,
\* only stage_id and last_activity_at of the deal with that id: every other
\* deal, every other field of that deal (created_at and prospects too), and
\* the order and length of the list stay; with no deal of that id the store
\* stays as it is.
C26_OnlyStageAndActivityChange ==
    [][ /\ ev'.kind = "api" =>
              /\ OnlyStageAndActivity(deals, deals', ev'.calls[1].dealId,
                                      ev'.calls[1].newStageId)
              /\ (\A k \in DOMAIN deals : deals[k].id # ev'.calls[1].dealId)
                    => deals' = deals
              /\ db' = db
        /\ \A i \in Slots :
              (ops[i].pc = "write" /\ ops'[i].pc = "writeOk") =>
                 /\ OnlyStageAndActivity(db, db', ops[i].dealId, ops[i].stage)
                 /\ deals' = deals ]_vars

\* changeStage has moved the second deal of the store to 'won' and the first
\* deal, its own prospects and its created_at are as they were.
C26_Witness ==
    /\ ev.kind = "api"
    /\ ev.calls = << Call("d1", "won") >>
    /\ deals[1] = FrameRows[1]
    /\ deals[2].stage_id = "won"
    /\ deals[2].created_at = 0
    /\ deals[2].organization = <<"A", "b">>

(***************************************************************************)
(* Properties of the detail modal.                                         *)
(***************************************************************************)
\* No call of handleStageChange has its write or its reload in flight.
NoStageChangeInFlight == \A i \in Slots : ops[i].kind # "stage"

\* C27: whenever no stage change is in flight, the deal the modal shows has
\* the stage_id of the deal with its id in the store, also after a stage
\* change made from the modal has failed and the reload has rolled it back.
C27_ModalAgreesWithStore ==
    (viewingDeal # <<>> /\ NoStageChangeInFlight) =>
        \A k \in DOMAIN deals :
            deals[k].id = viewingDeal[1].id => deals[k].stage_id = viewingDeal[1].stage_id

(***************************************************************************)
(* Properties of the reload that follows a successful write of a handler.  *)
(***************************************************************************)
\* The handler in slot i resolves: its write had succeeded and its fetchDeals
\* has returned.
Resolves(i) ==
    /\ ops[i].pc \in {"crudFetchOk", "crudFetchErr"}
    /\ ops'[i].pc = "idle"

\* C28: a create, update, delete, add-prospect or delete-prospect whose write
\* has succeeded resolves only with the store replaced by a fetch made after
\* the write: when it resolves (and the form closes) the store is what
\* persistence holds, the write included.
C28_ResolvesAfterFreshFetch ==
    [][ \A i \in Slots :
          Resolves(i) =>
             /\ deals' = db'
             /\ Written(deals', ops[i]) = deals' \/ ops[i].kind \in {"create", "addProspect"}
             /\ ops[i].kind \in FormKinds => ~showDealForm' ]_vars

(***************************************************************************)
(* A next action date entered in the form of a new deal: the date input    *)
(* gives the calendar day the user picks, in any time zone and at any time *)
(* of day, and the deal goes through createDeal into the store.            *)
(***************************************************************************)
\* The times of day of the days on which the date is entered.
EntryTimes == TicksPerDay..MaxTime

\* The days the date input can be set to.
EntryDays == 0..(MaxDay + 1)

DateEntryInit ==
    /\ Loaded(<<>>)
    /\ searchQuery = <<>>
    /\ clock \in EntryTimes
    /\ tz \in TzOffsets

DateEntryNext ==
    \/ OpenNewForm
    \/ TypeInForm("organization", <<"b">>)
    \/ \E d \in EntryDays : TypeInForm("nextActionAt", d)
    \/ HandleSubmit
    \/ \E i \in Slots : AuthServe(i)
    \/ \E i \in Slots : AuthReturn(i)
    \/ \E i \in Slots : CrudServe(i)
    \/ \E i \in Slots : CrudReturnErr(i)
    \/ \E i \in Slots : CrudReturnOk(i)
    \/ \E i \in Slots : CrudFetchServe(i)
    \/ \E i \in Slots : CrudFetchReturn(i)

DateEntrySpec == DateEntryInit /\ [][DateEntryNext]_vars

\* The step submits the form of a new deal and slot i takes the createDeal.
SubmitsCreate(i) == ops[i].pc = "idle" /\ ops'[i].kind = "create"

\* C29: in every time zone and at every time of day, a next action entered in
\* the form as the current local day is handed to createDeal, and stored, as a
\* date that is 'today' and not overdue, and one entered as a later day as a
\* date that is not overdue.
C29_EnteredDayIsClassified ==
    [][ \A i \in Slots :
          /\ (SubmitsCreate(i) /\ form.nextActionAt # Null) =>
                LET stored == ops'[i].payload[1].next_action_at
                IN  /\ form.nextActionAt = LocalDay(clock) =>
                          isToday(stored) /\ ~isOverdue(stored)
                    /\ form.nextActionAt > LocalDay(clock) => ~isOverdue(stored)
          /\ (Resolves(i) /\ ops[i].kind = "create" /\ ops[i].pc = "crudFetchOk") =>
                deals'[1].next_action_at = ops[i].payload[1].next_action_at ]_vars

(***************************************************************************)
(* Progress.  Persistence answers every request, and every answer reaches  *)
(* the handler that awaits it; the user may do anything or nothing.        *)
(***************************************************************************)
RequestsReturn ==
    \A i \in Slots :
        /\ WF_vars(FetchServe(i))
        /\ WF_vars(FetchReturnOk(i))
        /\ WF_vars(FetchReturnErr(i))
        /\ WF_vars(WriteServe(i))
        /\ WF_vars(WriteReturnOk(i))
        /\ WF_vars(WriteReturnErr(i))

LiveSpec == ApiSpec /\ RequestsReturn

\* C30: when every request returns, every started operation completes: the
\* first fetch sets loading to false whether it succeeds or fails, loading
\* never becomes true again, and every changeStage call comes to its end with
\* neither its write nor its reload in flight.
C30_OperationsComplete ==
    /\ <>[](~loading)
    /\ [][~loading => ~loading']_vars
    /\ \A i \in Slots : (ops[i].pc # "idle") ~> (ops[i].pc = "idle")

\* A changeStage call has come to its end after a failed write and a failed
\* reload, and loading is false.
C30_Witness ==
    /\ ev.kind = "reloadFailed"
    /\ Quiescent
    /\ ~loading
    /\ nCalls = MaxCalls

====
